---- MODULE Spec2Model ----
(***************************************************************************)
(* SpeciesCard (src/app/species/species-card.tsx): a card with a detail    *)
(* dialog, an edit form validated by speciesSchema and a delete            *)
(* confirmation dialog.  The component state is the three useState flags   *)
(* and the form; the environment is the user, the backend that answers     *)
(* update/delete requests, the notification sink and the router.           *)
(***************************************************************************)
EXTENDS Integers, Sequences, FiniteSets, Bags, TLC

VARIABLES
    species,        \* prop: the record shown by the card
    sessionId,      \* prop: the viewer's session identifier
    open,           \* useState: detail dialog
    isEditing,      \* useState: edit dialog
    isDeleting,     \* useState: delete-confirmation dialog
    form,           \* useForm: the field values
    errors,         \* useForm: the fields that carry a validation message
    view,           \* what the last render shows
    network,        \* bag of requests the backend has not answered yet
    toastCalls,     \* number of toast() calls
    lastToast,      \* argument of the latest toast() call
    refreshCount,   \* number of router.refresh() calls
    activations,    \* user activations: valid submits and confirm clicks
    delivered,      \* responses delivered, per operation and outcome
    lastEvent       \* the event handled by the latest step

vars == <<species, sessionId, open, isEditing, isDeleting, form, errors, view,
          network, toastCalls, lastToast, refreshCount, activations,
          delivered, lastEvent>>

(***************************************************************************)
(* Bounds of the model.                                                    *)
(***************************************************************************)
MaxRequests == 3
MaxPad == 2

(***************************************************************************)
(* Values.                                                                 *)
(***************************************************************************)
Null == "<null>"
Undefined == "<undefined>"
NoError == "<no error>"

Users == {"user-1", "user-2"}
GoodUrl == "https://example.org/cat.png"
ScientificNames == {"", "Felis catus"}
Images == {Null, "not a url", GoodUrl}
ErrorMessages == {"permission denied", "connection lost"}

\* z.string().url(): the strings the URL parser accepts.
IsUrl(s) == s \in {GoodUrl}

\* text is a sequence of characters; a null text is NullText.
Whitespace == {" ", "\t", "\n"}
NullText == <<"<null>">>
SliceLen == 150

\* the character c, n times
Rep(c, n) == [i \in 1..n |-> c]

Ellipsis == <<".", ".", ".">>

Min(a, b) == IF a < b THEN a ELSE b

Descriptions ==
    {NullText} \cup
    { Rep(" ", i) \o Rep("a", j) \o Rep(" ", k) \o Rep("b", m) :
        i \in 0..MaxPad,
        j \in {0, 1} \cup ((SliceLen - 2 * MaxPad - 1)..(SliceLen + 1)),
        k \in 0..(MaxPad + 1),
        m \in 0..MaxPad } \cup
    { Rep(" ", n) \o Rep("b", m) :
        n \in (SliceLen - 1)..(SliceLen + 1), m \in 0..MaxPad }

ShortDescription == <<"a", " ", "c", "a", "t">>

(***************************************************************************)
(* Rendering (lines 140-192).                                              *)
(***************************************************************************)
\* String.prototype.slice(0, n)
Slice(t, n) == SubSeq(t, 1, Min(n, Len(t)))

\* the positions of t that hold no whitespace
Inked(t) == {i \in 1..Len(t) : t[i] \notin Whitespace}

\* t from its first character that is no whitespace
TrimStart(t) ==
    IF Inked(t) = {} THEN <<>>
    ELSE SubSeq(t, CHOOSE i \in Inked(t) : \A j \in Inked(t) : i <= j, Len(t))

\* t up to its last character that is no whitespace
TrimEnd(t) ==
    IF Inked(t) = {} THEN <<>>
    ELSE SubSeq(t, 1, CHOOSE i \in Inked(t) : \A j \in Inked(t) : j <= i)

\* String.prototype.trim()
Trim(t) == TrimEnd(TrimStart(t))

\* a null or empty string is falsy
Truthy(t) == t # NullText /\ t # <<>>

\* line 149 without .trim()
CardDescriptionNoTrim(d) ==
    IF Truthy(d) THEN Slice(d, SliceLen) \o Ellipsis ELSE <<>>

\* line 149: species.description ? species.description.slice(0, 150).trim() + "..." : ""
CardDescription(d) ==
    IF Truthy(d) THEN Trim(Slice(d, SliceLen)) \o Ellipsis ELSE <<>>

\* line 176: {species.description}; React renders null as nothing
DetailDescription(d) == IF d = NullText THEN <<>> ELSE d

\* line 178 without the comparison: the controls shown to every viewer
OwnerControlsAlways == TRUE

\* line 178: species.author == sessionId
OwnerControls == species.author = sessionId

NotRendered == <<"<not rendered>">>

\* the card is always rendered; the detail dialog's content only while open
Render(o) ==
    [ cardText   |-> CardDescription(species.description),
      detailText |-> IF o THEN DetailDescription(species.description)
                          ELSE NotRendered,
      controls   |-> o /\ OwnerControls ]

(***************************************************************************)
(* The form (lines 57-65, 80-95).                                          *)
(***************************************************************************)
Fields == {"scientific_name", "image"}

\* speciesSchema without .min(1) on scientific_name
speciesSchemaNoMin(values) ==
    { f \in Fields : f = "image" /\ values.image # Null /\ ~IsUrl(values.image) }

\* lines 57-65: the fields of `values` that speciesSchema rejects
speciesSchema(values) ==
    { f \in Fields :
        \/ f = "scientific_name" /\ values.scientific_name = ""
        \/ f = "image" /\ values.image # Null /\ ~IsUrl(values.image) }

\* the schema's output: z.object drops the key it does not declare (author)
Parse(values) == [values EXCEPT !.author = Undefined]

\* lines 80-89
defaultValues ==
    [ scientific_name |-> species.scientific_name,
      image           |-> species.image,
      author          |-> species.author ]

NoData == [scientific_name |-> Undefined, image |-> Undefined, author |-> Undefined]

\* line 99: supabase.from("species").update(data).eq("id", species.id)
UpdateRequest(data) ==
    [op |-> "update", table |-> "species", id |-> species.id, data |-> data]

\* line 121: supabase.from("species").delete().eq("id", species.id)
DeleteRequest ==
    [op |-> "delete", table |-> "species", id |-> species.id, data |-> NoData]

Send(reqs) == network' = network (+) reqs

Ops == {"update", "delete"}
Outcomes == {"ok", "err"}

Outcome(error) == IF error = NoError THEN "ok" ELSE "err"

\* the requests of operation op the backend has not answered yet
InFlight(op) ==
    BagCardinality([r \in {x \in BagToSet(network) : x.op = op} |-> network[r]])

\* the requests of operation op the backend has answered
Answered(op) == delivered[<<op, "ok">>] + delivered[<<op, "err">>]

\* the requests of operation op the component has issued
IssuedOf(op) == InFlight(op) + Answered(op)

Issued == IssuedOf("update") + IssuedOf("delete")

\* toast({...})
toast(t) == toastCalls' = toastCalls + 1 /\ lastToast' = t

NoToast == [title |-> Undefined, description |-> Undefined, variant |-> Undefined]

ErrorToast(message) ==
    [title |-> "Something went wrong.", description |-> message, variant |-> "destructive"]

SuccessToast(title) ==
    [title |-> title, description |-> Undefined, variant |-> Undefined]

(***************************************************************************)
(* The handlers of the component.  Each one states what it does to the     *)
(* component's state and to its collaborators (network, toast, router).    *)
(***************************************************************************)
\* onSubmit returning early while an earlier update is unanswered
onSubmitStartGuarded(data) ==
    /\ IF InFlight("update") > 0
       THEN UNCHANGED network
       ELSE Send(SetToBag({UpdateRequest(data)}))
    /\ UNCHANGED <<open, isEditing, isDeleting, form, toastCalls, lastToast, refreshCount>>

\* lines 97-99: onSubmit up to the await
onSubmitStart(data) ==
    /\ Send(SetToBag({UpdateRequest(data)}))
    /\ UNCHANGED <<open, isEditing, isDeleting, form, toastCalls, lastToast, refreshCount>>

\* onSubmit without line 111: the form keeps what the user typed meanwhile
onSubmitResumeNoReset(data, error) ==
    IF error # NoError
    THEN /\ toast(ErrorToast(error))
         /\ UNCHANGED <<open, isEditing, isDeleting, form, errors, refreshCount>>
    ELSE /\ isEditing' = FALSE
         /\ refreshCount' = refreshCount + 1
         /\ toast(SuccessToast("Species updated successfully!"))
         /\ UNCHANGED <<open, isDeleting, form, errors>>

\* onSubmit closing the detail dialog too on success
onSubmitResumeClosesDetail(data, error) ==
    IF error # NoError
    THEN /\ toast(ErrorToast(error))
         /\ UNCHANGED <<open, isEditing, isDeleting, form, errors, refreshCount>>
    ELSE /\ isEditing' = FALSE
         /\ open' = FALSE
         /\ form' = data
         /\ errors' = {}
         /\ refreshCount' = refreshCount + 1
         /\ toast(SuccessToast("Species updated successfully!"))
         /\ UNCHANGED isDeleting

\* lines 101-117: onSubmit after the await
onSubmitResume(data, error) ==
    IF error # NoError
    THEN /\ toast(ErrorToast(error))
         /\ UNCHANGED <<open, isEditing, isDeleting, form, errors, refreshCount>>
    ELSE /\ isEditing' = FALSE
         /\ form' = data
         /\ errors' = {}
         /\ refreshCount' = refreshCount + 1
         /\ toast(SuccessToast("Species updated successfully!"))
         /\ UNCHANGED <<open, isDeleting>>

\* lines 92, 202: form.handleSubmit(onSubmit) runs the resolver and calls
\* onSubmit with the schema's output only when no field is rejected
handleSubmit ==
    IF speciesSchema(form) = {}
    THEN /\ errors' = {}
         /\ onSubmitStart(Parse(form))
    ELSE /\ errors' = speciesSchema(form)
         /\ UNCHANGED <<open, isEditing, isDeleting, form, network,
                        toastCalls, lastToast, refreshCount>>

\* lines 94, 210, 284: field.onChange with mode "onChange" stores the value
\* and revalidates the changed field
onChange(f, v) ==
    /\ form' = [form EXCEPT ![f] = v]
    /\ errors' = (errors \ {f}) \cup ({f} \cap speciesSchema(form'))
    /\ UNCHANGED <<open, isEditing, isDeleting, network, toastCalls, lastToast,
                   refreshCount>>

\* handleDelete issuing the delete twice
handleDeleteStartTwice ==
    /\ Send(SetToBag({DeleteRequest}) (+) SetToBag({DeleteRequest}))
    /\ UNCHANGED <<open, isEditing, isDeleting, form, errors, toastCalls,
                   lastToast, refreshCount>>

\* lines 119-121: handleDelete up to the await
handleDeleteStart ==
    /\ Send(SetToBag({DeleteRequest}))
    /\ UNCHANGED <<open, isEditing, isDeleting, form, errors, toastCalls,
                   lastToast, refreshCount>>

\* handleDelete closing the dialog before it looks at the error
handleDeleteResumeClosesOnError(error) ==
    IF error # NoError
    THEN /\ isDeleting' = FALSE
         /\ toast(ErrorToast(error))
         /\ UNCHANGED <<open, isEditing, form, errors, refreshCount>>
    ELSE /\ isDeleting' = FALSE
         /\ refreshCount' = refreshCount + 1
         /\ toast(SuccessToast("Species deleted successfully!"))
         /\ UNCHANGED <<open, isEditing, form, errors>>

\* handleDelete without line 133: no refresh after a delete
handleDeleteResumeNoRefresh(error) ==
    IF error # NoError
    THEN /\ toast(ErrorToast(error))
         /\ UNCHANGED <<open, isEditing, isDeleting, form, errors, refreshCount>>
    ELSE /\ isDeleting' = FALSE
         /\ toast(SuccessToast("Species deleted successfully!"))
         /\ UNCHANGED <<open, isEditing, form, errors, refreshCount>>

\* lines 123-138: handleDelete after the await
handleDeleteResume(error) ==
    IF error # NoError
    THEN /\ toast(ErrorToast(error))
         /\ UNCHANGED <<open, isEditing, isDeleting, form, errors, refreshCount>>
    ELSE /\ isDeleting' = FALSE
         /\ refreshCount' = refreshCount + 1
         /\ toast(SuccessToast("Species deleted successfully!"))
         /\ UNCHANGED <<open, isEditing, form, errors>>

\* line 151: onOpenChange={setOpen}
setOpen(v) ==
    /\ open' = v
    /\ UNCHANGED <<isEditing, isDeleting, form, errors, network, toastCalls,
                   lastToast, refreshCount>>

\* lines 180, 195: setIsEditing
setIsEditing(v) ==
    /\ isEditing' = v
    /\ UNCHANGED <<open, isDeleting, form, errors, network, toastCalls,
                   lastToast, refreshCount>>

\* lines 183, 320: setIsDeleting
setIsDeleting(v) ==
    /\ isDeleting' = v
    /\ UNCHANGED <<open, isEditing, form, errors, network, toastCalls,
                   lastToast, refreshCount>>

(***************************************************************************)
(* Events: what the user and the backend do.  A control can be used in the *)
(* states in which the component renders it; a dialog can be dismissed     *)
(* (onOpenChange(false)) in the states in which it is open.  Every step    *)
(* ends with a render of the new state.                                    *)
(***************************************************************************)
NoRequest == [op |-> "none", table |-> Undefined, id |-> 0, data |-> NoData]

Event(name) == [name |-> name, req |-> NoRequest, error |-> NoError]

\* a user event: no response is delivered
User(name) ==
    /\ lastEvent' = Event(name)
    /\ view' = Render(open')
    /\ UNCHANGED <<species, sessionId, delivered>>

\* lines 152-154: the trigger of the detail dialog
LearnMore ==
    /\ ~open
    /\ setOpen(TRUE)
    /\ User("LearnMore")
    /\ UNCHANGED activations

\* lines 151, 188-190: Close, or the dialog dismissing itself
CloseDetail ==
    /\ open
    /\ setOpen(FALSE)
    /\ User("CloseDetail")
    /\ UNCHANGED activations

\* the Edit Species button rendered outside the ownership conditional
ClickEditUnguarded ==
    /\ open
    /\ setIsEditing(TRUE)
    /\ User("ClickEdit")
    /\ UNCHANGED activations

\* lines 180-182: the Edit Species button
ClickEdit ==
    /\ view.controls
    /\ setIsEditing(TRUE)
    /\ User("ClickEdit")
    /\ UNCHANGED activations

\* lines 183-185: the Delete Species button
ClickDelete ==
    /\ view.controls
    /\ setIsDeleting(TRUE)
    /\ User("ClickDelete")
    /\ UNCHANGED activations

\* lines 194-195, 307-311: Cancel, or the edit dialog dismissing itself
CancelEdit ==
    /\ isEditing
    /\ setIsEditing(FALSE)
    /\ User("CancelEdit")
    /\ UNCHANGED activations

\* lines 205-215: typing in the Scientific Name input
ChangeScientificName ==
    /\ isEditing
    /\ \E v \in ScientificNames : onChange("scientific_name", v)
    /\ User("ChangeField")
    /\ UNCHANGED activations

\* lines 277-289: typing in the Image URL input (an input never yields null)
ChangeImage ==
    /\ isEditing
    /\ \E v \in Images \ {Null} : onChange("image", v)
    /\ User("ChangeField")
    /\ UNCHANGED activations

\* lines 202, 304-306: the submit event of the edit form
SubmitForm ==
    /\ isEditing
    /\ Issued < MaxRequests
    /\ handleSubmit
    /\ activations' = [activations EXCEPT
                         !.submit = @ + (IF speciesSchema(form) = {} THEN 1 ELSE 0)]
    /\ User("SubmitForm")

\* lines 319-320, 330-332: the Confirm Delete button
ConfirmDelete ==
    /\ isDeleting
    /\ Issued < MaxRequests
    /\ handleDeleteStart
    /\ activations' = [activations EXCEPT !.confirm = @ + 1]
    /\ User("ConfirmDelete")

\* lines 319-320, 333-337: Cancel, or the delete dialog dismissing itself
CancelDelete ==
    /\ isDeleting
    /\ setIsDeleting(FALSE)
    /\ User("CancelDelete")
    /\ UNCHANGED activations

\* the backend answers one request in flight
Deliver(req, error) ==
    /\ BagIn(req, network)
    /\ network' = network (-) SetToBag({req})
    /\ delivered' = [delivered EXCEPT ![<<req.op, Outcome(error)>>] = @ + 1]
    /\ lastEvent' = [name |-> "Response", req |-> req, error |-> error]
    /\ view' = Render(open')
    /\ UNCHANGED <<species, sessionId, activations>>

\* line 99 resolves: { error } is null or carries the backend's message
UpdateResponse ==
    \E req \in BagToSet(network), error \in {NoError} \cup ErrorMessages :
        /\ req.op = "update"
        /\ onSubmitResume(req.data, error)
        /\ Deliver(req, error)

\* line 121 resolves
DeleteResponse ==
    \E req \in BagToSet(network), error \in {NoError} \cup ErrorMessages :
        /\ req.op = "delete"
        /\ handleDeleteResume(error)
        /\ Deliver(req, error)

(***************************************************************************)
(* Specifications.                                                         *)
(***************************************************************************)
SpeciesRows(authors, images, descriptions) ==
    [ id : {7}, scientific_name : {"Felis catus"}, image : images,
      author : authors, description : descriptions ]

\* lines 74-95: the first render of a mounted card
Mount(rows) ==
    /\ species \in rows
    /\ sessionId \in Users
    /\ open = FALSE
    /\ isEditing = FALSE
    /\ isDeleting = FALSE
    /\ form = defaultValues
    /\ errors = {}
    /\ view = Render(FALSE)
    /\ network = EmptyBag
    /\ toastCalls = 0
    /\ lastToast = NoToast
    /\ refreshCount = 0
    /\ activations = [submit |-> 0, confirm |-> 0]
    /\ delivered = [k \in Ops \X Outcomes |-> 0]
    /\ lastEvent = Event("Mount")

Init == Mount(SpeciesRows(Users, {Null, GoodUrl}, {ShortDescription}))

Next ==
    \/ LearnMore
    \/ CloseDetail
    \/ ClickEdit
    \/ ClickDelete
    \/ CancelEdit
    \/ ChangeScientificName
    \/ ChangeImage
    \/ SubmitForm
    \/ ConfirmDelete
    \/ CancelDelete
    \/ UpdateResponse
    \/ DeleteResponse

Spec == Init /\ [][Next]_vars

\* the card rendered for every description of the bounded set
InitRender == Mount(SpeciesRows({"user-1"}, {Null}, Descriptions))

NextRender == LearnMore \/ CloseDetail

SpecRender == InitRender /\ [][NextRender]_vars

(***************************************************************************)
(* Properties.                                                             *)
(***************************************************************************)
\* this step delivers the backend's answer to a request of operation op
Responds(op) == lastEvent'.name = "Response" /\ lastEvent'.req.op = op

\* this step is the user event `name`
Happens(name) == lastEvent'.name = name

\* C1: handling a successful answer to an update request closes the edit
\* dialog, resets the form to the data of that request, refreshes once and
\* shows the one notification 'Species updated successfully!', whatever
\* state the user left the component in meanwhile.
C1_UpdateSuccess ==
    [][ (Responds("update") /\ lastEvent'.error = NoError) =>
            /\ isEditing' = FALSE
            /\ form' = lastEvent'.req.data
            /\ refreshCount' = refreshCount + 1
            /\ toastCalls' = toastCalls + 1
            /\ lastToast' = [title |-> "Species updated successfully!",
                             description |-> Undefined, variant |-> Undefined]
      ]_vars

\* an update succeeded while another update with other data is still in
\* flight: the form holds the answered request's data
C1_Witness ==
    /\ lastEvent.name = "Response"
    /\ lastEvent.req.op = "update"
    /\ lastEvent.error = NoError
    /\ \E r \in BagToSet(network) : r.op = "update" /\ r.data # lastEvent.req.data
    /\ form = lastEvent.req.data
    /\ ~isEditing
    /\ refreshCount = 1

\* C2: handling an error answer to an update or a delete request shows one
\* destructive notification carrying the backend's message, refreshes
\* nothing and leaves open, isEditing, isDeleting and the form values as
\* they were.
C2_ErrorLeavesState ==
    [][ (lastEvent'.name = "Response" /\ lastEvent'.error # NoError) =>
            /\ toastCalls' = toastCalls + 1
            /\ lastToast' = [title |-> "Something went wrong.",
                             description |-> lastEvent'.error,
                             variant |-> "destructive"]
            /\ refreshCount' = refreshCount
            /\ open' = open
            /\ isEditing' = isEditing
            /\ isDeleting' = isDeleting
            /\ form' = form
      ]_vars

\* an update and a delete were both answered with an error: both dialogs
\* are still open and the form still holds what the user entered
C2_Witness ==
    /\ lastEvent.name = "Response"
    /\ lastEvent.error \in ErrorMessages
    /\ delivered[<<"update", "err">>] = 1
    /\ delivered[<<"delete", "err">>] = 1
    /\ isEditing
    /\ isDeleting
    /\ form # defaultValues
    /\ refreshCount = 0
    /\ toastCalls = 2

\* C6: handling a successful answer to a delete request closes the
\* confirmation dialog, refreshes once and shows the one notification
\* 'Species deleted successfully!'.
C6_DeleteSuccess ==
    [][ (Responds("delete") /\ lastEvent'.error = NoError) =>
            /\ isDeleting' = FALSE
            /\ refreshCount' = refreshCount + 1
            /\ toastCalls' = toastCalls + 1
            /\ lastToast' = [title |-> "Species deleted successfully!",
                             description |-> Undefined, variant |-> Undefined]
      ]_vars

\* a delete confirmed from the open dialog was answered with success
C6_Witness ==
    /\ lastEvent.name = "Response"
    /\ lastEvent.req.op = "delete"
    /\ lastEvent.error = NoError
    /\ ~isDeleting
    /\ activations.confirm = 1
    /\ refreshCount = 1
    /\ toastCalls = 1

\* C10: no step of onSubmit or handleDelete, and no click on Edit Species
\* or Delete Species, changes the detail dialog's open flag; onSubmit never
\* changes isDeleting and handleDelete never changes isEditing.
C10_Frame ==
    [][ /\ (lastEvent'.name \in {"Response", "SubmitForm", "ConfirmDelete",
                                 "ClickEdit", "ClickDelete"}) => open' = open
        /\ (Responds("update") \/ Happens("SubmitForm")) => isDeleting' = isDeleting
        /\ (Responds("delete") \/ Happens("ConfirmDelete")) => isEditing' = isEditing
      ]_vars

\* an update started from the open detail dialog succeeded: the detail
\* dialog is still shown, the edit dialog is not
C10_Witness ==
    /\ lastEvent.name = "Response"
    /\ lastEvent.req.op = "update"
    /\ lastEvent.error = NoError
    /\ open
    /\ view.detailText = species.description
    /\ ~isEditing
    /\ isDeleting

\* the form states the schema is said to reject, and the fields at fault
EmptyName(values) == values.scientific_name = ""
BadImage(values) == values.image # Null /\ ~IsUrl(values.image)
Offending(values) ==
    {f \in {"scientific_name"} : EmptyName(values)} \cup
    {f \in {"image"} : BadImage(values)}

\* C3: a submit event on a form whose scientific_name is empty or whose
\* image is a non-null non-URL string issues no request and leaves the edit
\* dialog open with a message on each offending field; a step issues an
\* update request only if it is a submit of a form free of both faults, and
\* every update request carries data free of both.
C3_InvalidNeverSubmitted ==
    /\ [][ (Happens("SubmitForm") /\ Offending(form) # {}) =>
               /\ network' = network
               /\ isEditing /\ isEditing'
               /\ Offending(form) \subseteq errors'
               /\ form' = form ]_vars
    /\ [][ InFlight("update")' > InFlight("update") =>
               Happens("SubmitForm") /\ Offending(form) = {} ]_vars
    /\ [](\A r \in BagToSet(network) : r.op = "update" => Offending(r.data) = {})

\* a submit of a form with both faults: nothing in flight, both messages
C3_Witness ==
    /\ lastEvent.name = "SubmitForm"
    /\ EmptyName(form)
    /\ BadImage(form)
    /\ errors = {"scientific_name", "image"}
    /\ isEditing
    /\ network = EmptyBag
    /\ Issued = 0

\* C4: while the detail dialog is open the Edit Species and Delete Species
\* controls are present iff species.author equals sessionId, and when they
\* differ no step sets isEditing or isDeleting to true.
C4_ControlsIffOwner ==
    /\ [](open => (view.controls <=> species.author = sessionId))
    /\ [][ species.author # sessionId =>
               /\ isEditing' => isEditing
               /\ isDeleting' => isDeleting ]_vars

\* the detail dialog open for a viewer who is not the author
C4_Witness ==
    /\ open
    /\ species.author # sessionId
    /\ ~view.controls
    /\ view.detailText = species.description
    /\ lastEvent.name = "LearnMore"

\* the delete request of line 121
C5_TheDelete ==
    [op |-> "delete", table |-> "species", id |-> species.id, data |-> NoData]

\* C5: a confirm click issues exactly one delete request on table species
\* keyed by species.id, a cancel closes the delete dialog and issues none,
\* and the delete requests issued are as many as the confirm clicks.
C5_OneDeletePerConfirm ==
    /\ [][ Happens("ConfirmDelete") =>
               network' = network (+) SetToBag({C5_TheDelete}) ]_vars
    /\ [][ Happens("CancelDelete") => (~isDeleting' /\ network' = network) ]_vars
    /\ [][ InFlight("delete")' > InFlight("delete") => Happens("ConfirmDelete") ]_vars
    /\ [](IssuedOf("delete") = activations.confirm)

\* a confirm, then a cancel: one delete in flight, the dialog closed
C5_Witness ==
    /\ lastEvent.name = "CancelDelete"
    /\ ~isDeleting
    /\ activations.confirm = 1
    /\ InFlight("delete") = 1
    /\ BagIn(C5_TheDelete, network)

\* C8: every valid submit and every confirm click issues one request, also
\* with earlier requests of the same kind unanswered, and every answer is
\* handled on its own: one notification each, one refresh per success.
C8_NoInFlightGuard ==
    /\ IssuedOf("update") = activations.submit
    /\ IssuedOf("delete") = activations.confirm
    /\ toastCalls = Answered("update") + Answered("delete")
    /\ refreshCount = delivered[<<"update", "ok">>] + delivered[<<"delete", "ok">>]

\* as many requests of one kind in flight as the bound allows, none answered
C8_Witness ==
    /\ activations.submit = MaxRequests
    /\ InFlight("update") = MaxRequests
    /\ Answered("update") = 0
    /\ toastCalls = 0

\* C9: isEditing or isDeleting is true only for a viewer who is the
\* record's author, and so is every request issued.
C9_OnlyOwnerActs ==
    /\ (isEditing \/ isDeleting) => species.author = sessionId
    /\ Issued > 0 => species.author = sessionId

\* the author with both dialogs open and a request of each kind issued
C9_Witness ==
    /\ species.author = sessionId
    /\ isEditing
    /\ isDeleting
    /\ IssuedOf("update") > 0
    /\ IssuedOf("delete") > 0

\* text c is the first SliceLen characters of d without the whitespace at
\* their two ends, followed by "..."
C7_IsTrimmedHead(c, d) ==
    LET n == Len(c) - 3 IN
    /\ n >= 0
    /\ SubSeq(c, n + 1, n + 3) = <<".", ".", ".">>
    /\ n > 0 => (c[1] \notin Whitespace /\ c[n] \notin Whitespace)
    /\ \E lead \in 0..(SliceLen - n) :
          /\ \A k \in 1..lead : d[k] \in Whitespace
          /\ \A k \in 1..n : c[k] = d[lead + k]
          /\ \A k \in (lead + n + 1)..SliceLen : d[k] \in Whitespace

\* C7: for a description longer than 150 characters the card shows its
\* first 150 characters, trimmed of leading and trailing whitespace,
\* followed by "..."; the open detail dialog shows the whole description.
C7_CardTruncates ==
    (species.description # NullText /\ Len(species.description) > SliceLen) =>
        /\ C7_IsTrimmedHead(view.cardText, species.description)
        /\ open => view.detailText = species.description

\* a description over 150 characters that starts with whitespace and has
\* whitespace at the cut, shown in the card and in the open detail dialog
C7_Witness ==
    /\ species.description # NullText
    /\ Len(species.description) > SliceLen
    /\ species.description[1] \in Whitespace
    /\ species.description[SliceLen] \in Whitespace
    /\ species.description[SliceLen + 1] \notin Whitespace
    /\ Len(view.cardText) < SliceLen
    /\ open
    /\ Len(view.detailText) > SliceLen

====
